---- MODULE Spec2Model ----
(***************************************************************************)
(* Single-frame LiDAR segmentation (algo/frame.py, class Frame): gridding, *)
(* ground_detection (global fit + per-cell local refinement), clustering   *)
(* (2x2 block sweep) and grow_cluster (layer-by-layer growth).             *)
(*                                                                         *)
(* Heights are exact rationals <<num, den>> with den > 0: the heights that *)
(* ground_detection computes are quotients of integer determinants.        *)
(***************************************************************************)
EXTENDS Integers, Sequences, FiniteSets, TLC

VARIABLES
  cfg,        \* the configuration record handed to Frame.__init__
  n_points,   \* number of valid points
  pos,        \* per-point position [x, y, z]
  x_idx,      \* per-point angular bin
  y_idx,      \* per-point range bin
  h_arr,      \* per-point height <<num, den>>
  flags,      \* per-point flag bitset
  cid_arr,    \* per-point cluster id
  pc,         \* position of the pipeline
  ix, iy,     \* loop variables of the sweep in progress
  next_cid,   \* clustering: the id the next allocation hands out
  cid,        \* grow_cluster: the cluster being grown
  cid_max,    \* grow_cluster: self.cid_arr.max() taken when the loop starts
  h0,         \* grow_cluster: lower edge of the layer being examined
  grids,      \* grow_cluster: the active footprint (set of <<x_idx, y_idx>>)
  err,        \* the exception that ended the pipeline, "none" if none
  hist        \* history of the run (observations only, never read by the code)

vars == <<cfg, n_points, pos, x_idx, y_idx, h_arr, flags, cid_arr, pc, ix, iy,
          next_cid, cid, cid_max, h0, grids, err, hist>>

----------------------------------------------------------------------------
(* Bounds of the model *)

\* largest angular bin a point of a clustering frame may fall in
GX == 3
\* largest range bin a point of a clustering frame may fall in
GY == 3
\* number of freely placed points of a clustering frame
MaxFree == 2
\* number of valid points of a ground frame
MaxGroundPts == 4

----------------------------------------------------------------------------
(* Flag bits, frame.py:15-21 *)

_IS_NOISE == 1
_IS_GROUND == 2

----------------------------------------------------------------------------
(* Arithmetic helpers *)

Idx == 1..n_points

Abs(a) == IF a < 0 THEN -a ELSE a

Max(S) == CHOOSE m \in S : \A s \in S : s <= m

Min(S) == CHOOSE m \in S : \A s \in S : m <= s

\* h < c and h >= c for a height h = <<num, den>> and an integer c
HLt(h, c) == h[1] < c * h[2]

HGe(h, c) == h[1] >= c * h[2]

HGt(h, c) == h[1] > c * h[2]

\* numpy sum() of a boolean mask over the points
Count(mask) == Cardinality({i \in Idx : mask[i]})

----------------------------------------------------------------------------
(* Configurations.  Every threshold is read from cfg; heights and          *)
(* thresholds share one integer unit.                                      *)

\* configuration of a clustering run: band [1, 3), connect layer above 1,
\* layers [3, 5), [5, 7)
ClusterCfg(m) ==
  [dz_local |-> 1, dz_global |-> 2, base_h_cut |-> 3, h_max_cut |-> 7,
   h_grid_size |-> 2, min_samples |-> m, min_grd_pts |-> 3,
   max_slope |-> <<1, 4>>, lidar_height |-> 0,
   n_dist_grids |-> GY + 1, n_angular_grids |-> GX + 1]

----------------------------------------------------------------------------
(* Frames for the clustering runs: the state after __init__ and gridding.  *)
(* A point is <<x_idx, y_idx, height>>.  A frame is a base frame followed  *)
(* by at most MaxFree freely placed points, taken in one order (all the    *)
(* stages are invariant under a permutation of the point indices).         *)

\* the cells (0..mx) x (0..my), column by column
CellSeq(mx, my) == [k \in 1..((mx + 1) * (my + 1)) |->
                      <<(k - 1) \div (my + 1), (k - 1) % (my + 1)>>]

\* far ground returns that fix the occupied bin range of a frame
Anchors == << <<0, GY, 0>>, <<GX, GY, 0>> >>

\* Wide frames exercise the sweep: the whole grid, free points in the band's
\* connect layer (2) and in the first layer (3, the edge base_h_cut itself),
\* alone, or with the anchors and a band point in the first cell.
\* Tall frames exercise the height cuts and min_samples: a 3x3 grid, free
\* points of every level: below the band (0), the band's lower edge (1), 2,
\* 3, the second layer (5), and h_max_cut, above every layer (7); alone or
\* with a band point in the first cell.
Families ==
  { [cells |-> CellSeq(GX, GY), levels |-> <<2, 3>>,
     bases |-> { <<>>, Anchors \o << <<0, 0, 2>> >> },
     min_samples |-> {1}],
    [cells |-> CellSeq(2, 2), levels |-> <<0, 1, 2, 3, 5, 7>>,
     bases |-> { <<>>, << <<0, 0, 2>> >> },
     min_samples |-> {1, 2}] }

NTypes(fam) == Len(fam.cells) * Len(fam.levels)

TypeOf(fam, k) ==
  LET nh == Len(fam.levels)
      c  == fam.cells[(k \div nh) + 1]
  IN  <<c[1], c[2], fam.levels[(k % nh) + 1]>>

Sorted(s) == \A i \in 1..(Len(s) - 1) : s[i] <= s[i + 1]

----------------------------------------------------------------------------
(* Frame.clustering, frame.py:94-119 *)

\* frame.py:100
h_cut == [i \in Idx |-> HLt(h_arr[i], cfg.base_h_cut) /\ HGe(h_arr[i], cfg.dz_local)]

\* frame.py:102
in_x(bx) == [i \in Idx |-> x_idx[i] >= bx - 1 /\ x_idx[i] <= bx /\ h_cut[i]]

\* frame.py:107
in_y(by) == [i \in Idx |-> y_idx[i] >= by - 1 /\ y_idx[i] <= by /\ h_cut[i]]

\* frame.py:108
in_grid(bx, by) == [i \in Idx |-> in_x(bx)[i] /\ in_y(by)[i]]

\* frame.py:109
grid_samples(bx, by) == Count(in_grid(bx, by))

\* faulty variant: the smallest id of the block instead of the largest
BlockCidMin(bx, by) ==
  LET ids == {cid_arr[i] : i \in {j \in Idx : in_grid(bx, by)[j]}} \ {0}
  IN  IF ids = {} THEN 0 ELSE Min(ids)

\* frame.py:113, the id the block propagates
BlockCid(bx, by) == Max({cid_arr[i] : i \in {j \in Idx : in_grid(bx, by)[j]}})

\* faulty variant: a block of exactly min_samples points is rejected
IsDenseStrict(samples) == samples > cfg.min_samples

\* frame.py:117, the occupancy test of an allocation
IsDense(samples) == samples >= cfg.min_samples

\* faulty variant: the counter skips an id
BumpCidTwice(c) == c + 2

\* frame.py:119
BumpCid(c) == c + 1

\* bounds of range(self.x_idx.min()+1, self.x_idx.max()), frame.py:101
XLo == Min({x_idx[i] : i \in Idx}) + 1

\* faulty variant: the sweep includes the topmost angular bin
XHiInclusive == Max({x_idx[i] : i \in Idx}) + 1

XHi == Max({x_idx[i] : i \in Idx})

\* bounds of range(self.y_idx.min()+1, self.y_idx.max()), frame.py:106
YLo == Min({y_idx[i] : i \in Idx}) + 1

YHi == Max({y_idx[i] : i \in Idx})

\* the loop position reached when the outer loop arrives at column c: the
\* first block of c, or "clustered" when the ranges hold no further block
EnterColumn(c) ==
  IF c < XHi /\ YLo < YHi
  THEN /\ pc' = "clustering" /\ ix' = c /\ iy' = YLo
  ELSE /\ pc' = "clustered" /\ ix' = c /\ iy' = iy

\* the loop position after the block (ix, iy)
AfterBlock ==
  IF iy + 1 < YHi
  THEN /\ pc' = "clustering" /\ ix' = ix /\ iy' = iy + 1
  ELSE EnterColumn(ix + 1)

\* frame.py:98-101: reset, then the first loop position. min() of an empty
\* array raises ValueError
ClusteringBegin ==
  /\ pc = "gridded"
  /\ IF n_points = 0
     THEN /\ pc' = "error" /\ err' = "ValueError"
          /\ UNCHANGED <<ix, iy, next_cid, cid_arr>>
     ELSE /\ next_cid' = 1
          /\ cid_arr' = [i \in Idx |-> 0]
          /\ EnterColumn(XLo)
          /\ err' = err
  /\ UNCHANGED <<cfg, n_points, pos, x_idx, y_idx, h_arr, flags, cid, cid_max, h0, grids, hist>>

\* frame.py:102-104: no band point in columns ix-1, ix
ColumnSkip ==
  /\ pc = "clustering" /\ iy = YLo
  /\ Count(in_x(ix)) < 1
  /\ EnterColumn(ix + 1)
  /\ UNCHANGED <<cfg, n_points, pos, x_idx, y_idx, h_arr, flags, cid_arr, next_cid,
                 cid, cid_max, h0, grids, err, hist>>

\* frame.py:110-111
BlockEmpty ==
  /\ pc = "clustering"
  /\ Count(in_x(ix)) >= 1
  /\ grid_samples(ix, iy) < 1
  /\ AfterBlock
  /\ UNCHANGED <<cfg, n_points, pos, x_idx, y_idx, h_arr, flags, cid_arr, next_cid,
                 cid, cid_max, h0, grids, err, hist>>

\* what the history records of an examined block
SawBlock(op) ==
  LET block == {i \in Idx : in_grid(ix, iy)[i]}
  IN  [hist EXCEPT !.dense_seen = @ + (IF Cardinality(block) >= cfg.min_samples THEN 1 ELSE 0),
                   !.allocs = IF op = "allocate" THEN Append(@, next_cid) ELSE @,
                   !.last = [op |-> op, samples |-> Cardinality(block),
                             ids |-> {cid_arr[i] : i \in block} \ {0}]]

\* frame.py:113-116
BlockPropagate ==
  /\ pc = "clustering"
  /\ Count(in_x(ix)) >= 1
  /\ grid_samples(ix, iy) >= 1
  /\ BlockCid(ix, iy) > 0
  /\ cid_arr' = [i \in Idx |-> IF in_grid(ix, iy)[i] THEN BlockCid(ix, iy) ELSE cid_arr[i]]
  /\ hist' = SawBlock("propagate")
  /\ AfterBlock
  /\ UNCHANGED <<cfg, n_points, pos, x_idx, y_idx, h_arr, flags, next_cid,
                 cid, cid_max, h0, grids, err>>

\* frame.py:117-119
BlockAllocate ==
  /\ pc = "clustering"
  /\ Count(in_x(ix)) >= 1
  /\ grid_samples(ix, iy) >= 1
  /\ BlockCid(ix, iy) = 0
  /\ IsDense(grid_samples(ix, iy))
  /\ cid_arr' = [i \in Idx |-> IF in_grid(ix, iy)[i] THEN next_cid ELSE cid_arr[i]]
  /\ next_cid' = BumpCid(next_cid)
  /\ hist' = SawBlock("allocate")
  /\ AfterBlock
  /\ UNCHANGED <<cfg, n_points, pos, x_idx, y_idx, h_arr, flags,
                 cid, cid_max, h0, grids, err>>

\* frame.py:115-117, neither branch taken
BlockSparse ==
  /\ pc = "clustering"
  /\ Count(in_x(ix)) >= 1
  /\ grid_samples(ix, iy) >= 1
  /\ BlockCid(ix, iy) = 0
  /\ ~IsDense(grid_samples(ix, iy))
  /\ hist' = SawBlock("sparse")
  /\ AfterBlock
  /\ UNCHANGED <<cfg, n_points, pos, x_idx, y_idx, h_arr, flags, cid_arr, next_cid,
                 cid, cid_max, h0, grids, err>>

----------------------------------------------------------------------------
(* Frame.grow_cluster, frame.py:121-151 *)

\* frame.py:125
connect_layer == [i \in Idx |-> HGt(h_arr[i], cfg.base_h_cut - cfg.dz_global)]

\* frame.py:129
seeds(c) == [i \in Idx |-> connect_layer[i] /\ cid_arr[i] = c]

\* np.unique(grid_indices[mask], axis=0), frame.py:133 and 151
GridsOf(mask) == {<<x_idx[i], y_idx[i]>> : i \in {j \in Idx : mask[j]}}

\* faulty variant: the layer has no lower edge
in_layer_open(h) == [i \in Idx |-> HLt(h_arr[i], h + cfg.h_grid_size)]

\* frame.py:137
in_layer(h) == [i \in Idx |-> HGe(h_arr[i], h) /\ HLt(h_arr[i], h + cfg.h_grid_size)]

\* faulty variant: the query reaches two cells instead of one
nearby_wide(g, h) == [i \in Idx |-> Abs(x_idx[i] - g[1]) < 3 /\ Abs(y_idx[i] - g[2]) < 3 /\ in_layer(h)[i]]

\* frame.py:141
nearby(g, h) == [i \in Idx |-> Abs(x_idx[i] - g[1]) < 2 /\ Abs(y_idx[i] - g[2]) < 2 /\ in_layer(h)[i]]

\* frame.py:138-145, the union of nearby over the footprint
sel_arr(gs, h) == [i \in Idx |-> \E g \in gs : nearby(g, h)[i]]

\* faulty variant: the layer loop never breaks
LayerNeverBreaks(sel) == FALSE

\* frame.py:147, the early break of the layer loop
LayerBreaks(sel) == Count(sel) < 1

\* frame.py:128: the range of the cid loop is fixed when the loop starts
GrowBegin ==
  /\ pc = "clustered"
  /\ cid_max' = Max({cid_arr[i] : i \in Idx})
  /\ cid' = 1
  /\ pc' = "growing"
  /\ UNCHANGED <<cfg, n_points, pos, x_idx, y_idx, h_arr, flags, cid_arr, ix, iy,
                 next_cid, h0, grids, err, hist>>

\* frame.py:128, the cid loop is exhausted
GrowDone ==
  /\ pc = "growing"
  /\ cid > cid_max
  /\ pc' = "done"
  /\ UNCHANGED <<cfg, n_points, pos, x_idx, y_idx, h_arr, flags, cid_arr, ix, iy,
                 next_cid, cid, cid_max, h0, grids, err, hist>>

\* frame.py:129-131
GrowNoSeeds ==
  /\ pc = "growing"
  /\ cid <= cid_max
  /\ Count(seeds(cid)) < 1
  /\ cid' = cid + 1
  /\ UNCHANGED <<cfg, n_points, pos, x_idx, y_idx, h_arr, flags, cid_arr, ix, iy,
                 next_cid, cid_max, h0, grids, err, pc, hist>>

\* frame.py:133-136: the footprint of the seeds, then the first layer (none
\* when np.arange is empty)
GrowSeeds ==
  /\ pc = "growing"
  /\ cid <= cid_max
  /\ Count(seeds(cid)) >= 1
  /\ grids' = GridsOf(seeds(cid))
  /\ h0' = cfg.base_h_cut
  /\ IF cfg.base_h_cut < cfg.h_max_cut
     THEN pc' = "layer" /\ cid' = cid
     ELSE pc' = "growing" /\ cid' = cid + 1
  /\ hist' = [hist EXCEPT !.examined = 0, !.hit = 0]
  /\ UNCHANGED <<cfg, n_points, pos, x_idx, y_idx, h_arr, flags, cid_arr, ix, iy,
                 next_cid, cid_max, err>>

\* frame.py:137-151, one layer of one cluster
GrowLayer ==
  /\ pc = "layer"
  /\ LET sel == sel_arr(grids, h0)
     IN  /\ cid_arr' = [i \in Idx |-> IF sel[i] THEN cid ELSE cid_arr[i]]
         /\ hist' = [hist EXCEPT !.examined = @ + 1,
                                 !.hit = @ + (IF Count(sel) >= 1 THEN 1 ELSE 0),
                                 !.regrown = @ \/ \E i \in Idx : sel[i] /\ cid_arr[i] \notin {0, cid}]
         /\ IF LayerBreaks(sel)
            THEN /\ pc' = "growing" /\ cid' = cid + 1
                 /\ UNCHANGED <<grids, h0>>
            ELSE /\ grids' = GridsOf(sel)
                 /\ h0' = h0 + cfg.h_grid_size
                 /\ IF h0 + cfg.h_grid_size < cfg.h_max_cut
                    THEN pc' = "layer" /\ cid' = cid
                    ELSE pc' = "growing" /\ cid' = cid + 1
  /\ UNCHANGED <<cfg, n_points, pos, x_idx, y_idx, h_arr, flags, ix, iy,
                 next_cid, cid_max, err>>

----------------------------------------------------------------------------
(* Frame.gridding, frame.py:40-44.  The angular configuration of the       *)
(* ground runs is max_theta = pi/2, theta_grid_size = pi/3: the bin edges  *)
(* are asin(-1/2) and asin(1/2), and x / distXY is compared with them in   *)
(* integers (distXY^2 = x^2 + y^2).                                        *)

\* frame.py:34, squared
distXY2(p) == p[1] * p[1] + p[2] * p[2]

\* frame.py:42-43: int((asin(x / distXY) + pi/2) / (pi/3))
AngularBin(p) ==
  IF p[1] < 0 /\ 3 * p[1] * p[1] > p[2] * p[2] THEN 0
  ELSE IF p[1] > 0 /\ p[2] = 0 THEN 3
  ELSE IF p[1] > 0 /\ 3 * p[1] * p[1] >= p[2] * p[2] THEN 2
  ELSE 1

\* frame.py:44: int((distXY - min_dist) / dist_grid_size), for
\* distXY >= min_dist
RangeBin(p) ==
  LET edge(k) == cfg.min_dist + k * cfg.dist_grid_size
  IN  CHOOSE k \in 0..(distXY2(p) + 1) :
        edge(k) * edge(k) <= distXY2(p) /\ distXY2(p) < edge(k + 1) * edge(k + 1)

Gridding ==
  /\ pc = "constructed"
  /\ x_idx' = [i \in Idx |-> AngularBin(pos[i])]
  /\ y_idx' = [i \in Idx |-> RangeBin(pos[i])]
  /\ pc' = "gridded"
  /\ UNCHANGED <<cfg, n_points, pos, h_arr, flags, cid_arr, ix, iy, next_cid,
                 cid, cid_max, h0, grids, err, hist>>

----------------------------------------------------------------------------
(* util.plane_fit: the least-squares plane z = a x + b y + c through the   *)
(* points I, solved exactly from the normal equations by Cramer's rule.    *)
(* The result is <<Da, Db, Dc, D>> with a = Da / D, b = Db / D, c = Dc / D *)
(* and D > 0; D = 0 when the points do not determine a plane.              *)

RECURSIVE Sum(_, _)
Sum(f, S) ==
  IF S = {} THEN 0
  ELSE LET i == CHOOSE j \in S : TRUE IN f[i] + Sum(f, S \ {i})

Det3(m) ==
    m[1][1] * (m[2][2] * m[3][3] - m[2][3] * m[3][2])
  - m[1][2] * (m[2][1] * m[3][3] - m[2][3] * m[3][1])
  + m[1][3] * (m[2][1] * m[3][2] - m[2][2] * m[3][1])

plane_fit(I) ==
  LET n   == Cardinality(I)
      Sx  == Sum([i \in I |-> pos[i][1]], I)
      Sy  == Sum([i \in I |-> pos[i][2]], I)
      Sz  == Sum([i \in I |-> pos[i][3]], I)
      Sxx == Sum([i \in I |-> pos[i][1] * pos[i][1]], I)
      Sxy == Sum([i \in I |-> pos[i][1] * pos[i][2]], I)
      Syy == Sum([i \in I |-> pos[i][2] * pos[i][2]], I)
      Sxz == Sum([i \in I |-> pos[i][1] * pos[i][3]], I)
      Syz == Sum([i \in I |-> pos[i][2] * pos[i][3]], I)
  IN  << Det3(<< <<Sxz, Sxy, Sx>>, <<Syz, Syy, Sy>>, <<Sz, Sy, n>> >>),
         Det3(<< <<Sxx, Sxz, Sx>>, <<Sxy, Syz, Sy>>, <<Sx, Sz, n>> >>),
         Det3(<< <<Sxx, Sxy, Sxz>>, <<Sxy, Syy, Syz>>, <<Sx, Sy, Sz>> >>),
         Det3(<< <<Sxx, Sxy, Sx>>, <<Sxy, Syy, Sy>>, <<Sx, Sy, n>> >>) >>

RECURSIVE GCD(_, _)
GCD(a, b) == IF b = 0 THEN a ELSE GCD(b, a % b)

\* the rational num / den, den > 0, in lowest terms
Ratio(num, den) ==
  LET g == GCD(Abs(num), den) IN <<num \div g, den \div g>>

----------------------------------------------------------------------------
(* Frame.ground_detection, frame.py:46-91 *)

HasGround(f) == (f \div _IS_GROUND) % 2 = 1

\* flags |= _IS_GROUND
SetGround(f) == IF HasGround(f) THEN f ELSE f + _IS_GROUND

\* frame.py:49: |z + lidar_height| < clip(distXY * max_slope, dz_local, dz_global)
grd_candidates ==
  LET t(i) == Abs(pos[i][3] + cfg.lidar_height)
      sn   == cfg.max_slope[1]
      sd   == cfg.max_slope[2]
  IN  {i \in Idx :
         /\ t(i) < cfg.dz_global
         /\ \/ t(i) < cfg.dz_local
            \/ t(i) * t(i) * sd * sd < distXY2(pos[i]) * sn * sn}

\* frame.py:56: z - a x - b y - c
GlobalHeight(par, i) ==
  Ratio(par[4] * pos[i][3] - par[1] * pos[i][1] - par[2] * pos[i][2] - par[3], par[4])

\* frame.py:59
seed_grd(i) == HLt(h_arr'[i], cfg.dz_local)

\* frame.py:63-68, the loop position after the cell (ix, iy) and after the
\* row iy; the sweep ends in "ground_done"
NextRow ==
  IF iy + 1 < cfg.n_dist_grids
  THEN /\ pc' = "refining" /\ iy' = iy + 1 /\ ix' = 0
  ELSE /\ pc' = "ground_done" /\ iy' = iy + 1 /\ ix' = 0

NextCell ==
  IF ix + 1 < cfg.n_angular_grids
  THEN /\ pc' = "refining" /\ iy' = iy /\ ix' = ix + 1
  ELSE NextRow

\* frame.py:47-63: Phase A, then the first position of the Phase B sweep
GroundBegin ==
  /\ pc = "gridded"
  /\ LET par == plane_fit(grd_candidates)
     IN  IF par[4] = 0
         THEN /\ pc' = "undefined" /\ err' = "plane_fit"
              /\ flags' = [i \in Idx |-> 0]
              /\ UNCHANGED <<h_arr, ix, iy, hist>>
         ELSE /\ h_arr' = [i \in Idx |-> GlobalHeight(par, i)]
              /\ flags' = [i \in Idx |->
                             IF i \in grd_candidates /\ seed_grd(i) THEN SetGround(0) ELSE 0]
              /\ pc' = IF cfg.n_dist_grids > 0 /\ cfg.n_angular_grids > 0
                       THEN "refining" ELSE "ground_done"
              /\ ix' = 0 /\ iy' = 0
              /\ hist' = [hist EXCEPT !.seeded = flags']
              /\ err' = err
  /\ UNCHANGED <<cfg, n_points, pos, x_idx, y_idx, cid_arr, next_cid,
                 cid, cid_max, h0, grids>>

\* frame.py:64
gd_in_y == {i \in Idx : y_idx[i] = iy}

\* frame.py:65, the early exit of a range-bin row
RowTooSmall == Cardinality(gd_in_y) < cfg.min_grd_pts

\* frame.py:67-70
nearby_idx == {i \in Idx : Abs(y_idx[i] - iy) < 2 /\ Abs(x_idx[i] - ix) < 2}

\* frame.py:72
to_fit_idx == {i \in nearby_idx : HasGround(flags[i])}

\* frame.py:74, the guard of a local fit
TooFewToFit == Cardinality(to_fit_idx) < cfg.min_grd_pts

\* faulty variant: the cell widened to the neighbourhood the fit reads
local_idx_nearby == nearby_idx

\* frame.py:84-85
local_idx == {i \in Idx : x_idx[i] = ix /\ y_idx[i] = iy}

\* faulty variant: the local plane subtracted from the height already stored
LocalHeightOnStored(par, i) ==
  LET sn == cfg.max_slope[1]
      sd == cfg.max_slope[2]
      clip(v) == IF v * sd > sn * par[4] THEN sn * par[4]
                 ELSE IF v * sd < -(sn * par[4]) THEN -(sn * par[4])
                 ELSE v * sd
      num == h_arr[i][1] * par[4] * sd
               - h_arr[i][2] * (clip(par[1]) * pos[i][1] + clip(par[2]) * pos[i][2] + par[3] * sd)
  IN  Ratio(num, h_arr[i][2] * par[4] * sd)

\* frame.py:78-86: the height over the local plane with its slopes clipped
\* to [-max_slope, max_slope]; all terms over the denominator D * sd
LocalHeight(par, i) ==
  LET sn == cfg.max_slope[1]
      sd == cfg.max_slope[2]
      clip(v) == IF v * sd > sn * par[4] THEN sn * par[4]
                 ELSE IF v * sd < -(sn * par[4]) THEN -(sn * par[4])
                 ELSE v * sd
  IN  Ratio(pos[i][3] * par[4] * sd - clip(par[1]) * pos[i][1]
              - clip(par[2]) * pos[i][2] - par[3] * sd,
            par[4] * sd)

\* frame.py:89
on_local_plane(h) == HGt(h, -cfg.dz_global) /\ HLt(h, cfg.dz_local)

\* faulty variant: off-plane points keep their flags
LocalFlagsKept(f, h) == IF on_local_plane(h) THEN SetGround(f) ELSE f

\* frame.py:90-91
LocalFlags(f, h) == IF on_local_plane(h) THEN SetGround(f) ELSE 0

\* frame.py:65-66
RowSkip ==
  /\ pc = "refining" /\ ix = 0
  /\ RowTooSmall
  /\ NextRow
  /\ UNCHANGED <<cfg, n_points, pos, x_idx, y_idx, h_arr, flags, cid_arr, next_cid,
                 cid, cid_max, h0, grids, err, hist>>

\* frame.py:74-75
CellSkip ==
  /\ pc = "refining"
  /\ ~RowTooSmall
  /\ TooFewToFit
  /\ NextCell
  /\ UNCHANGED <<cfg, n_points, pos, x_idx, y_idx, h_arr, flags, cid_arr, next_cid,
                 cid, cid_max, h0, grids, err, hist>>

\* frame.py:77-91
CellRefine ==
  /\ pc = "refining"
  /\ ~RowTooSmall
  /\ ~TooFewToFit
  /\ LET par == plane_fit(to_fit_idx)
     IN  IF par[4] = 0
         THEN /\ pc' = "undefined" /\ err' = "plane_fit"
              /\ UNCHANGED <<h_arr, flags, ix, iy, hist>>
         ELSE /\ h_arr' = [i \in Idx |-> IF i \in local_idx THEN LocalHeight(par, i) ELSE h_arr[i]]
              /\ flags' = [i \in Idx |-> IF i \in local_idx
                                         THEN LocalFlags(flags[i], h_arr'[i]) ELSE flags[i]]
              /\ hist' = [hist EXCEPT !.refined = @ \cup {<<ix, iy>>},
                                      !.fits = @ + 1]
              /\ NextCell
              /\ err' = err
  /\ UNCHANGED <<cfg, n_points, pos, x_idx, y_idx, cid_arr, next_cid,
                 cid, cid_max, h0, grids>>

\* frame.py:63-91 run once more on the finished frame
PhaseBAgain ==
  /\ pc = "ground_done"
  /\ hist.pass = 1
  /\ cfg.n_dist_grids > 0 /\ cfg.n_angular_grids > 0
  /\ hist' = [hist EXCEPT !.pass = 2, !.snap_h = h_arr, !.snap_flags = flags]
  /\ pc' = "refining" /\ ix' = 0 /\ iy' = 0
  /\ UNCHANGED <<cfg, n_points, pos, x_idx, y_idx, h_arr, flags, cid_arr, next_cid,
                 cid, cid_max, h0, grids, err>>

----------------------------------------------------------------------------
(* The ground runs: a frame is built from the valid records of a batch     *)

\* configuration of the ground runs; max_slope is the rational 1/4
GroundCfg ==
  [dz_local |-> 1, dz_global |-> 3, base_h_cut |-> 3, h_max_cut |-> 7,
   h_grid_size |-> 2, min_samples |-> 1, min_grd_pts |-> 3,
   max_slope |-> <<1, 4>>, lidar_height |-> 1,
   min_dist |-> 0, dist_grid_size |-> 2,
   n_dist_grids |-> 3, n_angular_grids |-> 3]

\* the (x, y) of the records of a batch; no three of them on one line
GroundPool == << <<-3, 2>>, <<-2, 4>>, <<-1, 1>>, <<1, 3>>, <<2, 1>>, <<2, 2>> >>

\* the z of a record
ZLevels == {-2, -1, 0, 1}

\* seeded: the flags after Phase A; refined: the cells a local fit was
\* applied to; fits: the number of local fits; pass: the Phase B sweep in
\* progress; snap_h, snap_flags: heights and flags when the second sweep
\* started
NoGroundHist == [seeded |-> <<>>, refined |-> {}, fits |-> 0, pass |-> 1,
                 snap_h |-> <<>>, snap_flags |-> <<>>]

\* the records of the batch that are valid, in the order of the batch
RECURSIVE ValidRecords(_, _)
ValidRecords(zs, k) ==
  IF k = 0 THEN <<>>
  ELSE IF k \notin DOMAIN zs THEN ValidRecords(zs, k - 1)
  ELSE Append(ValidRecords(zs, k - 1), <<GroundPool[k][1], GroundPool[k][2], zs[k]>>)

\* frame.py:28-38
Init ==
  /\ cfg = GroundCfg
  /\ \E valid \in SUBSET (1..Len(GroundPool)) : \E zs \in [valid -> ZLevels] :
       LET f == ValidRecords(zs, Len(GroundPool))
       IN  /\ Len(f) <= MaxGroundPts
           /\ n_points = Len(f)
           /\ pos = f
           /\ x_idx = [i \in 1..Len(f) |-> 0]
           /\ y_idx = [i \in 1..Len(f) |-> 0]
           /\ h_arr = [i \in 1..Len(f) |-> <<0, 1>>]
           /\ flags = [i \in 1..Len(f) |-> 0]
           /\ cid_arr = [i \in 1..Len(f) |-> 0]
  /\ pc = "constructed"
  /\ ix = 0 /\ iy = 0 /\ next_cid = 1 /\ cid = 0 /\ cid_max = 0 /\ h0 = 0
  /\ grids = {}
  /\ err = "none"
  /\ hist = NoGroundHist

Next ==
  \/ Gridding
  \/ GroundBegin
  \/ RowSkip
  \/ CellSkip
  \/ CellRefine
  \/ PhaseBAgain

Spec == Init /\ [][Next]_vars

----------------------------------------------------------------------------
(* The clustering runs: __init__ and gridding done, heights given *)

\* dense_seen: examined blocks with occupancy >= min_samples; allocs: the ids
\* handed out, in order; last: the last examined block; examined, hit: layers
\* examined for the cluster being grown, and those that selected a point;
\* regrown: the grower relabelled a point that carried another cluster's id
NoHist == [dense_seen |-> 0, allocs |-> <<>>,
           last |-> [op |-> "none", samples |-> 0, ids |-> {}],
           examined |-> 0, hit |-> 0, regrown |-> FALSE]

InitCluster ==
  /\ \E fam \in Families : \E base \in fam.bases : \E n \in 0..MaxFree :
     \E s \in [1..n -> 0..(NTypes(fam) - 1)] :
       /\ Sorted(s)
       /\ \E m \in fam.min_samples : cfg = ClusterCfg(m)
       /\ LET f == base \o [i \in 1..n |-> TypeOf(fam, s[i])]
          IN  /\ n_points = Len(f)
              /\ x_idx = [i \in 1..Len(f) |-> f[i][1]]
              /\ y_idx = [i \in 1..Len(f) |-> f[i][2]]
              /\ h_arr = [i \in 1..Len(f) |-> <<f[i][3], 1>>]
              /\ pos = [i \in 1..Len(f) |-> <<0, 0, 0>>]
              /\ flags = [i \in 1..Len(f) |-> 0]
              /\ cid_arr = [i \in 1..Len(f) |-> 0]
  /\ pc = "gridded"
  /\ ix = 0 /\ iy = 0 /\ next_cid = 1 /\ cid = 0 /\ cid_max = 0 /\ h0 = 0
  /\ grids = {}
  /\ err = "none"
  /\ hist = NoHist

NextCluster ==
  \/ ClusteringBegin
  \/ ColumnSkip
  \/ BlockEmpty
  \/ BlockPropagate
  \/ BlockAllocate
  \/ BlockSparse
  \/ GrowBegin
  \/ GrowDone
  \/ GrowNoSeeds
  \/ GrowSeeds
  \/ GrowLayer

SpecCluster == InitCluster /\ [][NextCluster]_vars

----------------------------------------------------------------------------
(* Properties of clustering and grow_cluster *)

\* the height band [dz_local, base_h_cut) of the builder
InBand(i) == h_arr[i][1] >= cfg.dz_local * h_arr[i][2] /\ h_arr[i][1] < cfg.base_h_cut * h_arr[i][2]

\* the points of the 2x2 block [bx-1, bx] x [by-1, by] inside the band
BlockPoints(bx, by) ==
  {i \in Idx : x_idx[i] \in {bx - 1, bx} /\ y_idx[i] \in {by - 1, by} /\ InBand(i)}

\* C1: a step of the sweep that examines a block holding a point either
\* spreads the largest id present in the block over the block, or, when the
\* block carries no id, gives the whole block one fresh id if it holds at
\* least min_samples points and leaves it at 0 otherwise; the points outside
\* the block keep their ids.
C1_BlockStep ==
  [][ (pc = "clustering" /\ BlockPoints(ix, iy) # {}) =>
        LET B   == BlockPoints(ix, iy)
            ids == {cid_arr[i] : i \in B}
        IN  /\ \A i \in Idx \ B : cid_arr'[i] = cid_arr[i]
            /\ IF ids # {0}
               THEN \A i \in B : cid_arr'[i] = Max(ids)
               ELSE IF Cardinality(B) >= cfg.min_samples
               THEN \E k \in 1..(n_points + 1) :
                      /\ \A i \in Idx : cid_arr[i] # k
                      /\ \A j \in 1..Len(hist.allocs) : hist.allocs[j] # k
                      /\ \A i \in B : cid_arr'[i] = k
               ELSE \A i \in B : cid_arr'[i] = 0 ]_vars

\* C1 witness: a block has just merged two different ids into the larger
\* one, after allocations made with exactly min_samples points
C1_Witness ==
  /\ hist.last.op = "propagate"
  /\ Cardinality(hist.last.ids) >= 2
  /\ \E i \in Idx : cid_arr[i] = Max(hist.last.ids)

\* C2: the ids handed out so far are 1, 2, ..., next_cid - 1 in this order,
\* every id in cid_arr is one of them, and none exceeds the number of dense
\* blocks the sweep has examined.
C2_NoGaps ==
  /\ Len(hist.allocs) = next_cid - 1
  /\ \A k \in 1..Len(hist.allocs) : hist.allocs[k] = k
  /\ \A i \in Idx : cid_arr[i] \in 0..(next_cid - 1) /\ cid_arr[i] <= hist.dense_seen

\* C2 witness: the sweep has ended after handing out at least two ids
C2_Witness == pc = "clustered" /\ Len(hist.allocs) >= 2 /\ \E i \in Idx : cid_arr[i] = 2

C10_NeverDecreases ==
  [][ pc # "gridded" =>
        \A i \in Idx :
          /\ cid_arr'[i] >= cid_arr[i]
          /\ (pc \in {"clustered", "growing", "layer"} /\ h_arr[i][1] < cfg.base_h_cut * h_arr[i][2])
               => cid_arr'[i] = cid_arr[i] ]_vars

\* C10 witness: the grower has moved a point from one cluster to another
C10_Witness == pc = "done" /\ hist.regrown

\* the points of the layer [h, h + h_grid_size) within Chebyshev distance 1
\* of a cell of the footprint gs
LayerPoints(gs, h) ==
  {i \in Idx : /\ h_arr[i][1] >= h * h_arr[i][2]
               /\ h_arr[i][1] < (h + cfg.h_grid_size) * h_arr[i][2]
               /\ \E g \in gs : x_idx[i] - g[1] \in -1..1 /\ y_idx[i] - g[2] \in -1..1}

\* C5: the layers of a cluster are examined upwards from base_h_cut, one per
\* step; a layer is examined only when every lower layer selected a point; a
\* step labels the points it selects; after a layer that selects no point the
\* cluster is left, and after one that does the next layer (if any below
\* h_max_cut) is examined from the footprint of the selected points.
C5_GrowPrefix ==
  [][ pc = "layer" =>
        LET sel == LayerPoints(grids, h0)
        IN  /\ hist.examined = hist.hit
            /\ h0 = cfg.base_h_cut + hist.examined * cfg.h_grid_size
            /\ h0 < cfg.h_max_cut
            /\ \A i \in Idx : cid_arr'[i] = IF i \in sel THEN cid ELSE cid_arr[i]
            /\ sel = {} => (pc' = "growing" /\ cid' = cid + 1)
            /\ (sel # {} /\ h0 + cfg.h_grid_size < cfg.h_max_cut) =>
                 /\ pc' = "layer" /\ cid' = cid /\ h0' = h0 + cfg.h_grid_size
                 /\ grids' = {<<x_idx[i], y_idx[i]>> : i \in sel}
            /\ (sel # {} /\ h0 + cfg.h_grid_size >= cfg.h_max_cut) =>
                 (pc' = "growing" /\ cid' = cid + 1) ]_vars

\* C5 witness: a cluster was left after its first layer selected nothing,
\* although the layer above holds an unlabelled point next to the footprint
C5_Witness ==
  /\ pc = "growing"
  /\ hist.examined = 1 /\ hist.hit = 0
  /\ \E i \in LayerPoints(grids, h0 + cfg.h_grid_size) : cid_arr[i] = 0

\* a cluster has grown through every layer up to h_max_cut
C5_FullGrowth ==
  /\ pc = "growing"
  /\ hist.hit = 2 /\ hist.examined = 2
  /\ \E i \in Idx : cid_arr[i] = 1 /\ h_arr[i][1] >= 5 * h_arr[i][2]

\* Chebyshev distance of the cells of two points
Cheb(i, j) == Max({Abs(x_idx[i] - x_idx[j]), Abs(y_idx[i] - y_idx[j])})

\* the nonzero ids carried by the points of P
IdsOf(P) == {cid_arr[i] : i \in P} \ {0}

\* the frame is the two blobs A and Idx \ A, each of at least min_samples
\* points, all strictly above base_h_cut, and no cell holds points of both
BlobsAbove(A) ==
  /\ Cardinality(A) >= cfg.min_samples
  /\ Cardinality(Idx \ A) >= cfg.min_samples
  /\ A # {} /\ A # Idx
  /\ \A i \in Idx : h_arr[i][1] > cfg.base_h_cut * h_arr[i][2]
  /\ \A i \in A : \A j \in Idx \ A : Cheb(i, j) >= 1

\* C4 as stated: two disjoint dense blobs above base_h_cut end with two ids,
\* one per blob.
C4_TwoBlobsAbove ==
  pc = "done" =>
    \A A \in SUBSET Idx :
      BlobsAbove(A) =>
        \E ca \in 1..n_points : \E cb \in 1..n_points :
          /\ ca # cb
          /\ \A i \in A : cid_arr[i] = ca
          /\ \A i \in Idx \ A : cid_arr[i] = cb

\* the band points of P lie in one block of the sweep and are at least
\* min_samples
SeededInOneBlock(P) ==
  LET band == {i \in P : InBand(i)}
  IN  /\ Cardinality(band) >= cfg.min_samples
      /\ band # {}
      /\ \E bx \in XLo..(XHi - 1) : \E by \in YLo..(YHi - 1) : band \subseteq BlockPoints(bx, by)

\* the frame is the two blobs A and Idx \ A, the cells of one at Chebyshev
\* distance 2 or more from the cells of the other, each seeded in one block
BlobsApart(A) ==
  /\ A # {} /\ A # Idx
  /\ \A i \in A : \A j \in Idx \ A : Cheb(i, j) >= 2
  /\ SeededInOneBlock(A)
  /\ SeededInOneBlock(Idx \ A)

\* C4 amended: two blobs whose cells are at Chebyshev distance >= 2 and
\* whose band points (at least min_samples each) lie in one swept block each
\* end with exactly two nonzero ids: each blob carries exactly one id, on all
\* its band points, and the two ids differ.
C4_TwoBlobsApart ==
  pc = "done" =>
    \A A \in SUBSET Idx :
      BlobsApart(A) =>
        /\ Cardinality(IdsOf(Idx)) = 2
        /\ Cardinality(IdsOf(A)) = 1
        /\ Cardinality(IdsOf(Idx \ A)) = 1
        /\ IdsOf(A) # IdsOf(Idx \ A)
        /\ \A i \in Idx : InBand(i) => cid_arr[i] # 0

\* C4 witness: a finished run on two such blobs, one of them grown into the
\* layers above base_h_cut
C4_Witness ==
  /\ pc = "done"
  /\ \E A \in SUBSET Idx : BlobsApart(A)
  /\ \E i \in Idx : cid_arr[i] # 0 /\ ~InBand(i)

\* C7 as stated: on a frame without valid points no stage ends in an error.
C7_EmptyFrameNoError == n_points = 0 => err = "none"

----------------------------------------------------------------------------
(* Properties of ground_detection *)

\* h lies strictly inside (-dz_global, dz_local)
InsideLocalBand(h) == h[1] > -(cfg.dz_global * h[2]) /\ h[1] < cfg.dz_local * h[2]

\* C3: when ground_detection has ended, a point of a refined cell has its
\* ground bit set if its height lies strictly inside (-dz_global, dz_local)
\* and has flags 0 otherwise; a ground-flagged point of a cell that was never
\* refined has a height below dz_local.
C3_FlagsAfterGround ==
  (pc = "ground_done" /\ hist.pass = 1) =>
    \A i \in Idx :
      IF <<x_idx[i], y_idx[i]>> \in hist.refined
      THEN IF InsideLocalBand(h_arr[i])
           THEN (flags[i] \div 2) % 2 = 1
           ELSE flags[i] = 0
      ELSE (flags[i] \div 2) % 2 = 1 => h_arr[i][1] < cfg.dz_local * h_arr[i][2]

\* C3 witness: ground_detection has ended with a seeded point demoted to
\* flags 0 by its cell's refinement and a ground-flagged point in a cell
\* that was never refined
C3_Witness ==
  /\ pc = "ground_done" /\ hist.pass = 1
  /\ \E i \in Idx : /\ <<x_idx[i], y_idx[i]>> \in hist.refined
                    /\ hist.seeded[i] # 0 /\ flags[i] = 0
  /\ \E i \in Idx : /\ <<x_idx[i], y_idx[i]>> \notin hist.refined
                    /\ flags[i] # 0

\* C8: a step of the Phase B sweep at cell (ix, iy) changes heights and flags
\* of points of that cell only; it changes nothing when the row iy holds
\* fewer than min_grd_pts points or the 3x3 neighbourhood fewer than
\* min_grd_pts ground-flagged points, and refines the cell otherwise.
C8_OnlyTheCell ==
  [][ pc = "refining" =>
        LET row   == {i \in Idx : y_idx[i] = iy}
            gnear == {i \in Idx : /\ x_idx[i] - ix \in -1..1
                                  /\ y_idx[i] - iy \in -1..1
                                  /\ (flags[i] \div 2) % 2 = 1}
            skip  == Cardinality(row) < cfg.min_grd_pts \/ Cardinality(gnear) < cfg.min_grd_pts
        IN  /\ \A i \in Idx : (x_idx[i] # ix \/ y_idx[i] # iy) =>
                                (h_arr'[i] = h_arr[i] /\ flags'[i] = flags[i])
            /\ skip => (h_arr' = h_arr /\ flags' = flags /\ hist'.fits = hist.fits)
            /\ ~skip => (<<ix, iy>> \in hist'.refined /\ hist'.fits = hist.fits + 1) ]_vars

\* C8 witness: a cell holding a point has been refined from exactly
\* min_grd_pts ground-flagged points of its neighbourhood, which holds
\* points outside the cell
C8_Witness ==
  /\ pc = "refining" /\ hist.pass = 1
  /\ hist.fits >= 1
  /\ \E c \in hist.refined :
       /\ \E i \in Idx : <<x_idx[i], y_idx[i]>> = c /\ h_arr[i] # <<0, 1>> /\ flags[i] = 0
       /\ Cardinality({i \in Idx : Abs(x_idx[i] - c[1]) < 2 /\ Abs(y_idx[i] - c[2]) < 2}) = cfg.min_grd_pts + 1

\* C6 as stated: a second Phase B sweep over the finished frame leaves
\* every height and every flags value as it was.
C6_PhaseBFixedPoint ==
  (pc = "ground_done" /\ hist.pass = 2) => (h_arr = hist.snap_h /\ flags = hist.snap_flags)

\* C6 amended: when the first Phase B sweep left every flags value as
\* Phase A seeded it, a second sweep leaves every height and every flags
\* value as it was.
C6_FixedPointWhenFlagsKept ==
  (pc = "ground_done" /\ hist.pass = 2 /\ hist.snap_flags = hist.seeded) =>
    (h_arr = hist.snap_h /\ flags = hist.snap_flags)

\* C6 witness: the second sweep has ended on a frame whose first sweep kept
\* the seeded flags; both sweeps refined cells, and the local fit moved a
\* height away from the global one
C6_Witness ==
  /\ pc = "ground_done" /\ hist.pass = 2
  /\ hist.snap_flags = hist.seeded
  /\ hist.fits >= 2
  /\ \E i \in Idx : /\ <<x_idx[i], y_idx[i]>> \in hist.refined
                    /\ h_arr[i] # GlobalHeight(plane_fit(grd_candidates), i)

====
